---------------------------- MODULE Spec2Model ----------------------------
(***************************************************************************)
(* Hybrid retrieval pipeline of rag_chatbot_project: the graph retriever   *)
(* (query synthesis, validation, fallback, execution, refinement), the     *)
(* vector retriever (filter ladder) and the query endpoint.                *)
(*                                                                         *)
(* Text is a sequence of lexemes (TLA+ strings).  A lexeme is never split: *)
(* every keyword, property reference (".type"), fence and quote the code   *)
(* searches for is a lexeme of its own, so Python's substring test         *)
(* `x in text` is membership of the lexeme in the sequence.  White space   *)
(* is a lexeme (" ", "\n") wherever the code looks at it (split, strip).   *)
(* The lexeme "[fence]" stands for the three-backtick code fence.          *)
(***************************************************************************)
EXTENDS Integers, Sequences, FiniteSets, TLC

VARIABLES
    user_question,       \* the request's question (text)
    hyde_refinement_prompt, \* GraphRetriever: is a refinement prompt configured
    driver,              \* "ok" or "None": the Neo4j driver handle
    vector_db,           \* "ok" or "None": the Chroma handle
    index,               \* documents held by the vector index
    graphStore,          \* nodes held by the graph store
    pc,                  \* position of the request in query_llm
    initial_query,       \* fetch_related_code locals
    initial_results,
    refined_query,
    refined_results,
    neo4j_results,       \* what fetch_related_code returned
    vector_results,      \* what retrieve returned
    prompt,              \* the final prompt (its three substituted parts)
    result,              \* the endpoint's outcome
    chatLog,             \* ollama.chat calls made, in order, with their outcome
    runLog,              \* session.run calls made, in order
    searchLog,           \* similarity_search calls made, in order
    fn_in,               \* input of the function under study (pure-function specs)
    fn_out               \* its output

vars == << user_question, hyde_refinement_prompt, driver, vector_db, index,
           graphStore, pc, initial_query, initial_results, refined_query,
           refined_results, neo4j_results, vector_results, prompt, result,
           chatLog, runLog, searchLog, fn_in, fn_out >>

---------------------------------------------------------------------------
(* Bounds of the model *)

\* words in a question of the request specification
MaxWords == 1
\* words in a question handed to _should_refine_query
MaxRefineWords == 4
\* rows handed to _should_refine_query
MaxRows == 6
\* records per list of an ingested dataset, and ingestion passes
MaxNamespaces == 1
MaxClasses == 2
MaxMethods == 2
MaxPasses == 2
\* words in a question handed to _generate_fallback_query
MaxFallbackWords == 3
\* documents handed to format_results, and characters after the long block
\* of a document's body
MaxDocs == 2
MaxBodyTail == 10
\* graph rows handed to the context assembly of query_llm
MaxContextRows == 3

---------------------------------------------------------------------------
(* Text *)

Whitespace == {" ", "\n"}

\* str.lower() / str.upper(), lexeme by lexeme
LowerLex(a) ==
    CASE a = "Calc"   -> "calc"
      [] a = "Price"  -> "price"
      [] a = "Option" -> "option"
      [] a = "MATCH"  -> "match"
      [] a = "RETURN" -> "return"
      [] a = "LIMIT"  -> "limit"
      [] OTHER        -> a

UpperLex(a) ==
    CASE a = "match"    -> "MATCH"
      [] a = "return"   -> "RETURN"
      [] a = "limit"    -> "LIMIT"
      [] a = "where"    -> "WHERE"
      [] a = "or"       -> "OR"
      [] a = "contains" -> "CONTAINS"
      [] a = "starts"   -> "STARTS"
      [] a = "with"     -> "WITH"
      [] a = "toLower"  -> "TOLOWER"
      [] a = "calc"     -> "CALC"
      [] a = "Calc"     -> "CALC"
      [] a = "code"     -> "CODE"
      [] a = "ab"       -> "AB"
      [] a = "node"     -> "NODE"
      [] a = "foo"      -> "FOO"
      [] a = ".type"    -> ".TYPE"
      [] a = ".body"    -> ".BODY"
      [] a = ".name"    -> ".NAME"
      [] OTHER          -> a

Lower(s) == [i \in 1..Len(s) |-> LowerLex(s[i])]
Upper(s) == [i \in 1..Len(s) |-> UpperLex(s[i])]

\* `a in s` for a lexeme a
In(a, s) == \E i \in 1..Len(s) : s[i] = a

\* `sub in s` for a text sub of several lexemes
InSeq(sub, s) ==
    \E i \in 0..(Len(s) - Len(sub)) :
        \A j \in 1..Len(sub) : s[i + j] = sub[j]

\* number of characters of a lexeme, of a text
CharLen(a) ==
    CASE a \in {" ", "\n", "m", "c", "n", "x", "o", "d", "e", "r", "u",
                 "(", ")", "\"", "'"} -> 1
      [] a \in {"ab", "OR", "AS", "50", "10", "or"} -> 2
      [] a \in {"SET", "foo", "Run", "Foo", "[fence]"} -> 3
      [] a \in {"calc", "Calc", "code", "node", "WITH"} -> 4
      [] a \in {".type", ".body", ".name", "MATCH", "LIMIT", "WHERE", "Price", "price",
                 "Other"} -> 5
      [] a \in {"Option", "option", "RETURN", "return"} -> 6
      [] a \in {"Unknown"} -> 7
      [] a \in {"Method: "} -> 8
      [] a \in {" | Class: "} -> 10
      [] a \in {"\n\n"} -> 2
      [] a \in {" [content truncated...]"} -> 23
      [] a \in {"[760 chars]"} -> 760
      [] OTHER -> 6

RECURSIVE StrLen(_)
StrLen(s) == IF s = << >> THEN 0 ELSE CharLen(Head(s)) + StrLen(Tail(s))

\* str.strip(): leading and trailing white space removed
RECURSIVE LStrip(_)
LStrip(s) == IF s # << >> /\ Head(s) \in Whitespace THEN LStrip(Tail(s)) ELSE s

RECURSIVE RStrip(_)
RStrip(s) ==
    IF s # << >> /\ s[Len(s)] \in Whitespace
    THEN RStrip(SubSeq(s, 1, Len(s) - 1)) ELSE s

Strip(s) == RStrip(LStrip(s))

\* str.split(): the maximal runs of non-white-space lexemes, in order
RECURSIVE SplitFrom(_, _, _)
SplitFrom(s, i, cur) ==
    IF i > Len(s)
    THEN IF cur = << >> THEN << >> ELSE << cur >>
    ELSE IF s[i] \in Whitespace
         THEN IF cur = << >> THEN SplitFrom(s, i + 1, << >>)
              ELSE << cur >> \o SplitFrom(s, i + 1, << >>)
         ELSE SplitFrom(s, i + 1, Append(cur, s[i]))

Split(s) == SplitFrom(s, 1, << >>)

\* " ".join(words)
RECURSIVE Join(_)
Join(ws) ==
    IF ws = << >> THEN << >>
    ELSE IF Len(ws) = 1 THEN ws[1]
    ELSE ws[1] \o << " " >> \o Join(Tail(ws))

Range(s) == {s[i] : i \in 1..Len(s)}

SeqsUpTo(S, n) == UNION {[1..k -> S] : k \in 0..n}

---------------------------------------------------------------------------
(* Values exchanged with the backends *)

\* A row of the graph store: a sequence of fields (column alias, type, text).
\* Value types: "str" (text v), "num" and "null" (v unused).
Field(k, t, v) == [k |-> k, t |-> t, v |-> v]

\* The outcome of ollama.chat: a raised error, or a reply text
ChatRaise == [ok |-> FALSE, content |-> << >>]
ChatReply(text) == [ok |-> TRUE, content |-> text]

\* The outcome of session.run: a raised error, or the rows iterated
RunRaise == [ok |-> FALSE, rows |-> << >>]
RunRows(rows) == [ok |-> TRUE, rows |-> rows]

---------------------------------------------------------------------------
(* GraphRetriever: validation and repair *)

required_keywords == << "MATCH", "RETURN", "LIMIT" >>
invalid_properties == << ".description", ".comments", ".content", ".body", ".type" >>

Quotes == {"\"", "'"}
\* lexemes matching \w+ and \.\w+ in the model's query texts
Idents == {"m", "c", "n"}
Props == {".name", ".docstring", ".code", ".filename", ".body", ".type"}

\* (.+?)(["']): the closing quote of a literal opened at lexeme q, at least one
\* lexeme after it and with no line break in between; 0 when there is none
ClosingQuote(s, q) ==
    LET cands == {j \in (q + 2)..Len(s) :
                     /\ s[j] \in Quotes
                     /\ \A i \in (q + 1)..(j - 1) : s[i] # "\n"
                     /\ \A i \in (q + 2)..(j - 1) : s[i] \notin Quotes}
    IN IF cands = {} THEN 0 ELSE CHOOSE j \in cands : TRUE

\* Does pattern  (head\s+)(\w+\.\w+)\s+op\s+(["'])(.+?)(["'])  match at lexeme i
PatternAt(s, i, head, op) ==
    LET q == i + 3 + Len(op)
    IN /\ q <= Len(s)
       /\ UpperLex(s[i]) = head
       /\ s[i + 1] \in Idents
       /\ s[i + 2] \in Props
       /\ Upper(SubSeq(s, i + 3, i + 2 + Len(op))) = op
       /\ s[q] \in Quotes
       /\ ClosingQuote(s, q) # 0

\* re.sub(pattern, replacement, text, flags=re.IGNORECASE) for one pattern
RECURSIVE ReSub(_, _, _, _)
ReSub(s, i, head, op) ==
    IF i > Len(s) THEN << >>
    ELSE IF PatternAt(s, i, head, op)
         THEN LET q == i + 3 + Len(op)
                  j == ClosingQuote(s, q)
              IN << s[i], "toLower", "(", s[i + 1], s[i + 2], ")" >> \o op
                 \o << "toLower", "(" >> \o SubSeq(s, q, j) \o << ")" >>
                 \o ReSub(s, j + 1, head, op)
         ELSE << s[i] >> \o ReSub(s, i + 1, head, op)

enhance_with_case_insensitivity(cypher_query) ==
    LET p1 == ReSub(cypher_query, 1, "WHERE", << "CONTAINS" >>)
        p2 == ReSub(p1, 1, "WHERE", << "STARTS", "WITH" >>)
    IN ReSub(p2, 1, "OR", << "CONTAINS" >>)

\* What _validate_cypher_query returns: a bool, or (the repair path) a text
PyBool(b) == [kind |-> "bool", b |-> b, s |-> << >>]
PyStr(s) == [kind |-> "str", b |-> FALSE, s |-> s]
Truthy(v) == IF v.kind = "bool" THEN v.b ELSE v.s # << >>

validate_cypher_query(cypher_query) ==
    IF \E k \in Range(required_keywords) : ~In(k, Upper(cypher_query))
    THEN PyBool(FALSE)
    ELSE IF \E p \in Range(invalid_properties) : In(p, cypher_query)
    THEN PyBool(FALSE)
    ELSE IF (In("CONTAINS", Upper(cypher_query))
              \/ InSeq(<< "STARTS", "WITH" >>, Upper(cypher_query)))
            /\ ~In("toLower", cypher_query)
         THEN PyStr(enhance_with_case_insensitivity(cypher_query))
         ELSE PyBool(TRUE)

---------------------------------------------------------------------------
(* GraphRetriever: fallback query and synthesis *)

\* max(keywords, key=len): the first of the longest words
MaxByLen(ws) ==
    LET best == CHOOSE i \in 1..Len(ws) :
                    /\ \A j \in 1..Len(ws) : StrLen(ws[j]) <= StrLen(ws[i])
                    /\ \A j \in 1..(i - 1) : StrLen(ws[j]) < StrLen(ws[i])
    IN ws[best]

ShortWordLen == 3

\* (variant: the longest word is the term however short it is)
search_term_of_longest_only(user_query) ==
    LET keywords == Split(user_query)
    IN IF keywords = << >> THEN << >> ELSE MaxByLen(keywords)

search_term_of(user_query) ==
    LET keywords == Split(user_query)
    IN IF keywords = << >> THEN << >>
       ELSE IF StrLen(MaxByLen(keywords)) < ShortWordLen THEN user_query
       ELSE MaxByLen(keywords)

FallbackTemplate(search_term) ==
    << "\n", "MATCH", "(m:Method)", "\n",
       "WHERE", "toLower", "(", "m", ".name", ")", "CONTAINS",
       "toLower", "(", "\"" >> \o search_term \o << "\"", ")",
       "OR", "toLower", "(", "m", ".docstring", ")", "CONTAINS",
       "toLower", "(", "\"" >> \o search_term \o << "\"", ")", "\n",
       "MATCH", "(c:Class)-[:", "CONTAINS", "]->(m)", "\n",
       "MATCH", "(n:Namespace)-[:", "CONTAINS", "]->(c)", "\n",
       "RETURN", "n", ".name", "AS", "Namespace", ",", "c", ".name", "AS",
       "Class", ",", "m", ".name", "AS", "Method", "\n",
       "LIMIT", "50", "\n" >>

generate_fallback_query(user_query) == FallbackTemplate(search_term_of(user_query))

\* text.split(fence): the pieces between fences, empty pieces included
RECURSIVE SplitOn(_, _, _, _)
SplitOn(s, i, sep, cur) ==
    IF i > Len(s) THEN << cur >>
    ELSE IF s[i] = sep THEN << cur >> \o SplitOn(s, i + 1, sep, << >>)
    ELSE SplitOn(s, i + 1, sep, Append(cur, s[i]))

\* The reply with its code fence and language tag removed
StripFence(content) ==
    LET text == Strip(content)
        parts == SplitOn(text, 1, "[fence]", << >>)
    IN IF In("[fence]", text) /\ Len(parts) >= 3
       THEN LET inner == parts[2]
            IN Strip(IF inner # << >> /\ Head(inner) = "cypher"
                     THEN Tail(inner) ELSE inner)
       ELSE text

generate_cypher_query(user_query, reply) ==
    IF ~reply.ok THEN generate_fallback_query(user_query)
    ELSE LET cypher_query == StripFence(reply.content)
         IN IF ~Truthy(validate_cypher_query(cypher_query))
            THEN generate_fallback_query(user_query)
            ELSE cypher_query

---------------------------------------------------------------------------
(* GraphRetriever: execution against the graph store *)

WriteClauses == {"CREATE", "MERGE", "SET", "DELETE"}

\* session.run(query) on the store: a query with a writing clause that runs
\* without error changes the store's contents; any other run leaves them alone.
StoreAfterRun(store, cypher_query, outcome) ==
    IF outcome.ok /\ \E w \in WriteClauses : In(w, Upper(cypher_query))
    THEN store \cup {<< "Written", cypher_query >>}
    ELSE store

RunEntry(cypher_query, outcome) ==
    [query |-> cypher_query, ok |-> outcome.ok, rows |-> outcome.rows]

\* (variant: the failed query is run again in place of the fallback query)
execute_cypher_query_retry_same(drv, store, cypher_query, o1, o2) ==
    IF drv = "None"
    THEN [rows |-> << >>, runs |-> << >>, store |-> store]
    ELSE IF o1.ok
    THEN [rows |-> o1.rows,
          runs |-> << RunEntry(cypher_query, o1) >>,
          store |-> StoreAfterRun(store, cypher_query, o1)]
    ELSE [rows |-> IF o2.ok THEN o2.rows ELSE << >>,
          runs |-> << RunEntry(cypher_query, o1), RunEntry(cypher_query, o2) >>,
          store |-> StoreAfterRun(store, cypher_query, o2)]

\* (variant: the rows of the fallback run are dropped)
execute_cypher_query_drop_fallback(drv, store, cypher_query, o1, o2) ==
    IF drv = "None"
    THEN [rows |-> << >>, runs |-> << >>, store |-> store]
    ELSE IF o1.ok
    THEN [rows |-> o1.rows,
          runs |-> << RunEntry(cypher_query, o1) >>,
          store |-> StoreAfterRun(store, cypher_query, o1)]
    ELSE LET fb == FallbackTemplate(<< "code" >>)
         IN [rows |-> << >>,
             runs |-> << RunEntry(cypher_query, o1), RunEntry(fb, o2) >>,
             store |-> StoreAfterRun(store, fb, o2)]

\* (variant: the fallback query is run a second time when it raises)
execute_cypher_query_two_retries(drv, store, cypher_query, o1, o2) ==
    IF drv = "None"
    THEN [rows |-> << >>, runs |-> << >>, store |-> store]
    ELSE IF o1.ok
    THEN [rows |-> o1.rows,
          runs |-> << RunEntry(cypher_query, o1) >>,
          store |-> StoreAfterRun(store, cypher_query, o1)]
    ELSE LET fb == FallbackTemplate(<< "code" >>)
         IN [rows |-> IF o2.ok THEN o2.rows ELSE << >>,
             runs |-> IF o2.ok
                      THEN << RunEntry(cypher_query, o1), RunEntry(fb, o2) >>
                      ELSE << RunEntry(cypher_query, o1), RunEntry(fb, o2),
                              RunEntry(fb, o2) >>,
             store |-> StoreAfterRun(store, fb, o2)]

\* _execute_cypher_query: o1 is the outcome of running the query, o2 that of
\* running the fallback query for "code" (looked at only when o1 raised).
\* Yields the rows returned, the runs made and the store afterwards.
execute_cypher_query(drv, store, cypher_query, o1, o2) ==
    IF drv = "None"
    THEN [rows |-> << >>, runs |-> << >>, store |-> store]
    ELSE IF o1.ok
    THEN [rows |-> o1.rows,
          runs |-> << RunEntry(cypher_query, o1) >>,
          store |-> StoreAfterRun(store, cypher_query, o1)]
    ELSE LET fb == generate_fallback_query(<< "code" >>)
         IN [rows |-> IF o2.ok THEN o2.rows ELSE << >>,
             runs |-> << RunEntry(cypher_query, o1), RunEntry(fb, o2) >>,
             store |-> StoreAfterRun(store, fb, o2)]

---------------------------------------------------------------------------
(* GraphRetriever: the refinement decision and the refined query *)

RowsChecked == 5
OverlapNum == 3
OverlapDen == 10

FirstRows(results, n) == SubSeq(results, 1, IF Len(results) < n THEN Len(results) ELSE n)

\* set(text.lower().split())
WordSet(text) == Range(Split(Lower(text)))

\* the words of the string-valued fields of the rows
ResultTerms(rows) ==
    UNION {UNION {WordSet(rows[i][f].v) :
                      f \in {g \in 1..Len(rows[i]) : rows[i][g].t = "str"}} :
               i \in 1..Len(rows)}

\* (variant: every row looked at, not the first RowsChecked)
should_refine_query_all_rows(results, user_query) ==
    IF results = << >> THEN TRUE
    ELSE LET query_terms == WordSet(user_query)
             overlap == query_terms \cap ResultTerms(results)
         IN IF query_terms = {} THEN TRUE
            ELSE OverlapDen * Cardinality(overlap) < OverlapNum * Cardinality(query_terms)

\* (variant: a question without words is refined only when there are no rows)
should_refine_query_words_needed(results, user_query) ==
    IF results = << >> THEN TRUE
    ELSE LET query_terms == WordSet(user_query)
             result_terms == ResultTerms(FirstRows(results, RowsChecked))
             overlap == query_terms \cap result_terms
         IN IF query_terms = {} THEN FALSE
            ELSE OverlapDen * Cardinality(overlap) < OverlapNum * Cardinality(query_terms)

should_refine_query(results, user_query) ==
    IF results = << >> THEN TRUE
    ELSE LET query_terms == WordSet(user_query)
             result_terms == ResultTerms(FirstRows(results, RowsChecked))
             overlap == query_terms \cap result_terms
         IN \* overlap_ratio = len(overlap) / len(query_terms) if query_terms else 0
            \* overlap_ratio < 0.3
            IF query_terms = {} THEN TRUE
            ELSE OverlapDen * Cardinality(overlap) < OverlapNum * Cardinality(query_terms)

\* _refine_cypher_query: reply is the outcome of the refinement model call.
\* (An error while building the prompt is caught like an error of the call.)
\* (variant: the refined text is taken without validation)
refine_cypher_query_unvalidated(user_query, init_query, init_results, reply) ==
    IF ~reply.ok THEN init_query
    ELSE LET refined == StripFence(reply.content)
         IN IF refined # init_query THEN refined ELSE init_query

refine_cypher_query(user_query, init_query, init_results, reply) ==
    IF ~reply.ok THEN init_query
    ELSE LET refined == StripFence(reply.content)
         IN IF Truthy(validate_cypher_query(refined)) /\ refined # init_query
            THEN refined
            ELSE init_query

---------------------------------------------------------------------------
(* EnhancedVectorRetriever *)

\* A document of the vector index: metadata method_name, class_name and body
Doc(m, c, body) == [method_name |-> m, class_name |-> c, page_content |-> body]

NoFilter == [op |-> "none", methods |-> << >>, classes |-> << >>]
AndFilter(mn, cn) == [op |-> "and", methods |-> mn, classes |-> cn]
OrFilter(mn, cn) == [op |-> "or", methods |-> mn, classes |-> cn]
MethodFilter(mn) == [op |-> "method", methods |-> mn, classes |-> << >>]
ClassFilter(cn) == [op |-> "class", methods |-> << >>, classes |-> cn]

Matches(doc, filter) ==
    LET m == In(doc.method_name, filter.methods)
        c == In(doc.class_name, filter.classes)
    IN CASE filter.op = "none"   -> TRUE
         [] filter.op = "and"    -> m /\ c
         [] filter.op = "or"     -> m \/ c
         [] filter.op = "method" -> m
         [] filter.op = "class"  -> c

RECURSIVE SelectDocs(_, _)
SelectDocs(docs, filter) ==
    IF docs = << >> THEN << >>
    ELSE IF Matches(Head(docs), filter)
         THEN << Head(docs) >> \o SelectDocs(Tail(docs), filter)
         ELSE SelectDocs(Tail(docs), filter)

Take(s, n) == SubSeq(s, 1, IF Len(s) < n THEN Len(s) ELSE n)

\* vector_db.similarity_search(query, k=k, filter=filter): the k best ranked
\* matching documents (idx is in rank order), or an error when the call fails
\* or the handle is None.
similarity_search(db, idx, query, k, filter, fails) ==
    IF db = "None" \/ fails
    THEN [query |-> query, k |-> k, filter |-> filter, ok |-> FALSE, docs |-> << >>]
    ELSE [query |-> query, k |-> k, filter |-> filter, ok |-> TRUE,
          docs |-> Take(SelectDocs(idx, filter), k)]

\* The outcome of a retrieval helper: raised or not, documents, searches made
Returned(docs, log) == [raised |-> FALSE, docs |-> docs, searches |-> log]
Raised(log) == [raised |-> TRUE, docs |-> << >>, searches |-> log]

\* the `except` branch shared by the helpers: one unfiltered search, whose
\* error (if any) leaves the helper
UnfilteredAfter(db, idx, query, k, log, fails) ==
    LET u == similarity_search(db, idx, query, k, NoFilter, fails)
    IN IF u.ok THEN Returned(u.docs, Append(log, u)) ELSE Raised(Append(log, u))

\* (variant: the empty AND result is returned, the OR filter never tried)
retrieve_with_method_and_class_filters_no_or(db, idx, query, mn, cn, k, f) ==
    LET s1 == similarity_search(db, idx, query, k, AndFilter(mn, cn), f[1])
    IN IF ~s1.ok THEN UnfilteredAfter(db, idx, query, k, << s1 >>, f[2])
       ELSE Returned(s1.docs, << s1 >>)

\* f[n] says whether the n-th similarity search of the call fails
retrieve_with_method_and_class_filters(db, idx, query, mn, cn, k, f) ==
    LET s1 == similarity_search(db, idx, query, k, AndFilter(mn, cn), f[1])
    IN IF ~s1.ok THEN UnfilteredAfter(db, idx, query, k, << s1 >>, f[2])
       ELSE IF s1.docs = << >>
       THEN LET s2 == similarity_search(db, idx, query, k, OrFilter(mn, cn), f[2])
            IN IF ~s2.ok THEN UnfilteredAfter(db, idx, query, k, << s1, s2 >>, f[3])
               ELSE Returned(s2.docs, << s1, s2 >>)
       ELSE Returned(s1.docs, << s1 >>)

\* (variant: a failed filtered search ends in an empty list, no unfiltered search)
retrieve_with_method_filters_swallow(db, idx, query, mn, k, f) ==
    LET s1 == similarity_search(db, idx, query, k, MethodFilter(mn), f[1])
    IN Returned(s1.docs, << s1 >>)

retrieve_with_method_filters(db, idx, query, mn, k, f) ==
    LET s1 == similarity_search(db, idx, query, k, MethodFilter(mn), f[1])
    IN IF ~s1.ok THEN UnfilteredAfter(db, idx, query, k, << s1 >>, f[2])
       ELSE Returned(s1.docs, << s1 >>)

\* (variant: the class names are not used as a filter)
retrieve_with_class_filters_unfiltered(db, idx, query, cn, k, f) ==
    LET s1 == similarity_search(db, idx, query, k, NoFilter, f[1])
    IN IF ~s1.ok THEN UnfilteredAfter(db, idx, query, k, << s1 >>, f[2])
       ELSE Returned(s1.docs, << s1 >>)

retrieve_with_class_filters(db, idx, query, cn, k, f) ==
    LET s1 == similarity_search(db, idx, query, k, ClassFilter(cn), f[1])
    IN IF ~s1.ok THEN UnfilteredAfter(db, idx, query, k, << s1 >>, f[2])
       ELSE Returned(s1.docs, << s1 >>)

retrieve_with_filters(db, idx, query, mn, cn, k, f) ==
    LET inner ==
            IF mn # << >> /\ cn # << >>
            THEN retrieve_with_method_and_class_filters(db, idx, query, mn, cn, k, f)
            ELSE IF mn # << >>
            THEN retrieve_with_method_filters(db, idx, query, mn, k, f)
            ELSE IF cn # << >>
            THEN retrieve_with_class_filters(db, idx, query, cn, k, f)
            ELSE LET u == similarity_search(db, idx, query, k, NoFilter, f[1])
                 IN IF u.ok THEN Returned(u.docs, << u >>) ELSE Raised(<< u >>)
    IN IF inner.raised
       THEN UnfilteredAfter(db, idx, query, k, inner.searches,
                            f[Len(inner.searches) + 1])
       ELSE inner

\* docstring.split('.')[0] if '.' in docstring else docstring
FirstSentence(docstring) == SplitOn(docstring, 1, ".", << >>)[1]

\* _build_enhanced_query: the question and the set of enhancements joined to it.
\* The join order of set(...) is not fixed by the code; the enhancements are kept
\* as the set.  (The 100 and 500 character cuts do not bite on the model's texts.)
build_enhanced_query(question, mn, cn, docstrings) ==
    [question |-> question,
     enhancements |-> Range(mn) \cup Range(cn)
                      \cup {FirstSentence(docstrings[i]) :
                               i \in {j \in 1..Len(docstrings) : docstrings[j] # << >>}}]

retrieve(db, idx, question, mn, cn, docstrings, k, f) ==
    retrieve_with_filters(db, idx, build_enhanced_query(question, mn, cn, docstrings),
                          mn, cn, k, f)

\* format_results: header, body and the cut at MaxSnippet characters
MaxSnippet == 800
NoMeta == << "[absent]" >>

\* text[:n] (a lexeme is kept whole or dropped)
RECURSIVE TakeChars(_, _)
TakeChars(s, n) ==
    IF s = << >> \/ CharLen(Head(s)) > n THEN << >>
    ELSE << Head(s) >> \o TakeChars(Tail(s), n - CharLen(Head(s)))

\* (variant: the cut already applies at MaxSnippet characters)
format_doc_cut_at_limit(doc) ==
    LET metadata_text ==
            << "Method: " >>
            \o (IF doc.method_name = NoMeta THEN << "Unknown" >> ELSE doc.method_name)
            \o << " | Class: " >>
            \o (IF doc.class_name = NoMeta THEN << "Unknown" >> ELSE doc.class_name)
        enriched_content == metadata_text \o << "\n\n" >> \o doc.page_content
    IN IF StrLen(enriched_content) >= MaxSnippet
       THEN TakeChars(enriched_content, MaxSnippet) \o << " [content truncated...]" >>
       ELSE enriched_content

format_doc(doc) ==
    LET metadata_text ==
            << "Method: " >>
            \o (IF doc.method_name = NoMeta THEN << "Unknown" >> ELSE doc.method_name)
            \o << " | Class: " >>
            \o (IF doc.class_name = NoMeta THEN << "Unknown" >> ELSE doc.class_name)
        enriched_content == metadata_text \o << "\n\n" >> \o doc.page_content
    IN IF StrLen(enriched_content) > MaxSnippet
       THEN TakeChars(enriched_content, MaxSnippet) \o << " [content truncated...]" >>
       ELSE enriched_content

\* the snippets, joined by the separator line when rendered
format_results(docs) == [i \in 1..Len(docs) |-> format_doc(docs[i])]

---------------------------------------------------------------------------
(* query_llm: what it takes from the graph rows *)

HasKey(row, k) == \E f \in 1..Len(row) : row[f].k = k
Get(row, k) == row[CHOOSE f \in 1..Len(row) : row[f].k = k]

RECURSIVE ColumnOf(_, _)
ColumnOf(rows, k) ==
    IF rows = << >> THEN << >>
    ELSE (IF HasKey(Head(rows), k) THEN << Get(Head(rows), k) >> ELSE << >>)
         \o ColumnOf(Tail(rows), k)

\* Documentation is taken only from rows that also have a Method
RECURSIVE DocstringsOf(_)
DocstringsOf(rows) ==
    IF rows = << >> THEN << >>
    ELSE (IF HasKey(Head(rows), "Method") /\ HasKey(Head(rows), "Documentation")
          THEN << Get(Head(rows), "Documentation") >> ELSE << >>)
         \o DocstringsOf(Tail(rows))

Texts(fields) == [i \in 1..Len(fields) |-> fields[i].v]

\* " ".join(...) and `'.' in docstring` raise TypeError on a value that is no string
EnhanceRaises(rows) ==
    \/ \E x \in Range(ColumnOf(rows, "Method")) \cup Range(ColumnOf(rows, "Class")) :
           x.t # "str"
    \/ \E x \in Range(DocstringsOf(rows)) : x.t = "num"

\* (variant: empty strings are rendered too)
item_summary_any_string(row) ==
    {<< row[f].k, row[f].v >> : f \in {g \in 1..Len(row) : row[g].t = "str"}}

\* the lines "key: value" of one row: its non-empty string-valued fields
item_summary(row) ==
    {<< row[f].k, row[f].v >> :
        f \in {g \in 1..Len(row) : row[g].t = "str" /\ row[g].v # << >>}}

RECURSIVE graph_context_items(_)
graph_context_items(rows) ==
    IF rows = << >> THEN << >>
    ELSE (IF item_summary(Head(rows)) # {} THEN << item_summary(Head(rows)) >> ELSE << >>)
         \o graph_context_items(Tail(rows))

\* FINAL_RESPONSE_PROMPT and the keywords query_llm passes to format()
TemplateFields == {"graph_context", "vector_context", "user_question"}
SuppliedFields == {"graph_context", "vector_context", "user_question"}

final_prompt(rows, docs, question) ==
    [form |-> IF TemplateFields \subseteq SuppliedFields THEN "template" ELSE "raw",
     graph_context |-> graph_context_items(rows),
     vector_context |-> format_results(docs),
     user_question |-> question]

NoPrompt == [form |-> "none", graph_context |-> << >>, vector_context |-> << >>,
             user_question |-> << >>]

K == 7

\* (variant: the handler hands the error on as an error status)
error_answer_status(message) == [kind |-> "error", answer |-> << message >>]

\* the endpoint's `except Exception` branch
error_answer(message) ==
    [kind |-> "answer",
     answer |-> << "An error occurred: ", message,
                   ". Please check the logs for more details." >>]

ok_answer(content) == [kind |-> "answer", answer |-> content]

NoResult == [kind |-> "none", answer |-> << >>]

\* (variant: the refined rows returned whether or not there are any)
fetch_return_refined_always(init_results, ref_results) == ref_results

\* fetch_related_code's return once the refined query has run
fetch_return(init_results, ref_results) ==
    IF ref_results # << >> THEN ref_results ELSE init_results

---------------------------------------------------------------------------
(* Inputs: questions, model replies, store rows, index documents *)

QWords == {<< "ab" >>, << "Calc" >>, << "node", ".type" >>}

\* the questions of at most n words (the empty question included)
Questions(n) == {Join(ws) : ws \in SeqsUpTo(QWords, n)}

\* replies of the query-synthesis / refinement model
ReadQuery ==
    << "MATCH", "(m:Method)", "RETURN", "m", ".name", "AS", "Method", "LIMIT", "10" >>
FencedReply == << "[fence]", "cypher", "\n" >> \o ReadQuery \o << "\n", "[fence]", "\n" >>
BodyQuery ==
    << "MATCH", "(m:Method)", "RETURN", "m", ".body", "AS", "Body", "LIMIT", "10" >>
WriteQuery ==
    << "MATCH", "(m:Method)", "SET", "m", ".name", "=", "\"", "x", "\"",
       "RETURN", "m", ".name", "AS", "Method", "LIMIT", "10" >>
ContainsQuery ==
    << "MATCH", "(m:Method)", "WHERE", "m", ".name", "CONTAINS", "\"", "Calc", "\"",
       "RETURN", "m", ".name", "AS", "Method", "LIMIT", "10" >>

ReplyTexts == {FencedReply, BodyQuery, WriteQuery, ContainsQuery, << >>}
ChatOutcomes == {ChatRaise} \cup {ChatReply(t) : t \in ReplyTexts}

\* rows the graph store may return
RowBoth ==
    << Field("Namespace", "str", << "Pricing" >>),
       Field("Class", "str", << "OptionPricing" >>),
       Field("Method", "str", << "Calc" >>) >>
RowMethod == << Field("Method", "str", << "Run" >>) >>
RowClass == << Field("Class", "str", << "Foo" >>) >>

RowSets == {<< >>, << RowBoth >>, << RowMethod >>, << RowClass >>,
            << RowMethod, RowClass >>}
RunOutcomes == {RunRaise} \cup {RunRows(r) : r \in RowSets}

\* the vector index, in rank order
TheIndex ==
    << Doc(<< "Calc" >>, << "Other" >>, << "c", "o", "d", "e" >>),
       Doc(<< "Run" >>, << "Foo" >>, << "r", "u", "n" >>),
       Doc(NoMeta, NoMeta, << "x" >>) >>

InitialStore == {<< "Method", << "Calc" >> >>, << "Class", << "OptionPricing" >> >>}

FinalOutcomes == {ChatRaise, ChatReply(<< "the answer" >>)}

\* (variant: the endpoint hands a refinement prompt to the retriever)
WiredRefinementPromptGiven == TRUE

\* rag_chatbot.py builds GraphRetriever(driver, HYDE_SYSTEM_PROMPT): the third
\* argument is left at its default None, so the retriever of the endpoint has
\* no refinement prompt.  (A retriever built with one is the other value of
\* hyde_refinement_prompt.)
WiredRefinementPrompt == FALSE

NotSet == << "[unset]" >>

---------------------------------------------------------------------------
(* The request: query_llm, step by step between backend calls *)

RequestInit ==
    /\ hyde_refinement_prompt \in BOOLEAN
    /\ driver \in {"ok", "None"}
    /\ vector_db \in {"ok", "None"}
    /\ index = TheIndex
    /\ graphStore = InitialStore
    /\ pc = "start"
    /\ initial_query = NotSet
    /\ initial_results = << >>
    /\ refined_query = NotSet
    /\ refined_results = << >>
    /\ neo4j_results = << >>
    /\ vector_results = << >>
    /\ prompt = NoPrompt
    /\ result = NoResult
    /\ chatLog = << >>
    /\ runLog = << >>
    /\ searchLog = << >>
    /\ fn_in = << >>
    /\ fn_out = << >>

Init ==
    /\ user_question \in Questions(MaxWords)
    /\ RequestInit

config == << user_question, hyde_refinement_prompt, driver, vector_db, index,
             fn_in, fn_out >>

ChatEntry(role, reply) == [role |-> role, ok |-> reply.ok, content |-> reply.content]

\* fetch_related_code, lines 41-45: the synthesis model call
GenerateQuery ==
    /\ pc = "start"
    /\ \E reply \in ChatOutcomes :
         /\ initial_query' = generate_cypher_query(user_question, reply)
         /\ chatLog' = Append(chatLog, ChatEntry("hyde", reply))
    /\ pc' = IF initial_query' = << >> THEN "fetched" ELSE "execute_initial"
    /\ UNCHANGED << config, graphStore, initial_results, refined_query,
                    refined_results, neo4j_results, vector_results, prompt,
                    result, runLog, searchLog >>

\* fetch_related_code, lines 48-53 and 72-75: run the initial query, decide
ExecuteInitial ==
    /\ pc = "execute_initial"
    /\ \E o1 \in RunOutcomes, o2 \in RunOutcomes :
         LET e == execute_cypher_query(driver, graphStore, initial_query, o1, o2)
         IN /\ initial_results' = e.rows
            /\ runLog' = runLog \o e.runs
            /\ graphStore' = e.store
            /\ IF hyde_refinement_prompt /\ should_refine_query(e.rows, user_question)
               THEN pc' = "refine" /\ UNCHANGED neo4j_results
               ELSE pc' = "fetched" /\ neo4j_results' = e.rows
    /\ UNCHANGED << config, initial_query, refined_query, refined_results,
                    vector_results, prompt, result, chatLog, searchLog >>

\* fetch_related_code, lines 55-61 and 72: the refinement model call
RefineQuery ==
    /\ pc = "refine"
    /\ \E reply \in ChatOutcomes :
         /\ refined_query' = refine_cypher_query(user_question, initial_query,
                                                 initial_results, reply)
         /\ chatLog' = Append(chatLog, ChatEntry("refine", reply))
    /\ IF refined_query' # << >> /\ refined_query' # initial_query
       THEN pc' = "execute_refined" /\ UNCHANGED neo4j_results
       ELSE pc' = "fetched" /\ neo4j_results' = initial_results
    /\ UNCHANGED << config, graphStore, initial_query, initial_results,
                    refined_results, vector_results, prompt, result, runLog,
                    searchLog >>

\* fetch_related_code, lines 64-72: run the refined query, choose the rows
ExecuteRefined ==
    /\ pc = "execute_refined"
    /\ \E o1 \in RunOutcomes, o2 \in RunOutcomes :
         LET e == execute_cypher_query(driver, graphStore, refined_query, o1, o2)
         IN /\ refined_results' = e.rows
            /\ runLog' = runLog \o e.runs
            /\ graphStore' = e.store
            /\ neo4j_results' = fetch_return(initial_results, e.rows)
    /\ pc' = "fetched"
    /\ UNCHANGED << config, initial_query, initial_results, refined_query,
                    vector_results, prompt, result, chatLog, searchLog >>

\* query_llm, lines 56-113: names and context from the rows, the vector stage,
\* the final prompt; an error of the vector stage goes to the handler
RetrieveVector ==
    /\ pc = "fetched"
    /\ \E f \in [1..4 -> BOOLEAN] :
         LET mn == Texts(ColumnOf(neo4j_results, "Method"))
             cn == Texts(ColumnOf(neo4j_results, "Class"))
             ds == Texts(DocstringsOf(neo4j_results))
             r == IF EnhanceRaises(neo4j_results) THEN Raised(<< >>)
                  ELSE retrieve(vector_db, index, user_question, mn, cn, ds, K, f)
         IN /\ searchLog' = r.searches
            /\ IF r.raised
               THEN /\ result' = error_answer("vector stage failed")
                    /\ pc' = "done"
                    /\ UNCHANGED << vector_results, prompt >>
               ELSE /\ vector_results' = r.docs
                    /\ prompt' = final_prompt(neo4j_results, r.docs, user_question)
                    /\ pc' = "retrieved"
                    /\ UNCHANGED result
    /\ UNCHANGED << config, graphStore, initial_query, initial_results,
                    refined_query, refined_results, neo4j_results, chatLog, runLog >>

\* query_llm, lines 117-127: the final model call and the payload
FinalAnswer ==
    /\ pc = "retrieved"
    /\ \E reply \in FinalOutcomes :
         /\ chatLog' = Append(chatLog, ChatEntry("final", reply))
         /\ result' = IF reply.ok THEN ok_answer(reply.content)
                      ELSE error_answer("final model call failed")
    /\ pc' = "done"
    /\ UNCHANGED << config, graphStore, initial_query, initial_results,
                    refined_query, refined_results, neo4j_results, vector_results,
                    prompt, runLog, searchLog >>

Next ==
    \/ GenerateQuery
    \/ ExecuteInitial
    \/ RefineQuery
    \/ ExecuteRefined
    \/ RetrieveVector
    \/ FinalAnswer

Spec == Init /\ [][Next]_vars

\* fetch_related_code on its own, from its call to its return.  The function
\* is straight-line code between backend calls, each of which returns or
\* raises: a step that can be taken is taken.
FetchNext ==
    \/ GenerateQuery
    \/ ExecuteInitial
    \/ RefineQuery
    \/ ExecuteRefined

SpecFetch == Init /\ [][FetchNext]_vars /\ WF_vars(FetchNext)

---------------------------------------------------------------------------
(* _should_refine_query on its own: inputs drawn at the start, one application *)

RefineWords == {<< "ab" >>, << "Calc" >>, << "node", ".type" >>, << "price" >>}
RowHit == << Field("Method", "str", << "Calc" >>), Field("Count", "num", << >>) >>
RowMiss == << Field("Method", "str", << "Run" >>), Field("Documentation", "null", << >>) >>

RefineQuestions ==
    {Join(ws) : ws \in SeqsUpTo(RefineWords, MaxRefineWords)} \cup {<< " " >>}

FnInit ==
    /\ user_question = << >>
    /\ hyde_refinement_prompt = FALSE
    /\ driver = "ok"
    /\ vector_db = "ok"
    /\ index = TheIndex
    /\ graphStore = InitialStore
    /\ pc = "fn"
    /\ initial_query = NotSet
    /\ initial_results = << >>
    /\ refined_query = NotSet
    /\ refined_results = << >>
    /\ neo4j_results = << >>
    /\ vector_results = << >>
    /\ prompt = NoPrompt
    /\ result = NoResult
    /\ chatLog = << >>
    /\ runLog = << >>
    /\ searchLog = << >>
    /\ fn_out = << >>

request == << user_question, hyde_refinement_prompt, driver, vector_db, index,
              graphStore, initial_query, initial_results, refined_query,
              refined_results, neo4j_results, vector_results, prompt, result,
              chatLog, runLog, searchLog >>

ShouldRefineInit ==
    /\ fn_in \in [rows : SeqsUpTo({RowHit, RowMiss}, MaxRows),
                  question : RefineQuestions]
    /\ FnInit

ApplyShouldRefine ==
    /\ pc = "fn"
    /\ fn_out' = << should_refine_query(fn_in.rows, fn_in.question) >>
    /\ pc' = "fn_done"
    /\ UNCHANGED << request, fn_in >>

SpecShouldRefine == ShouldRefineInit /\ [][ApplyShouldRefine]_vars

---------------------------------------------------------------------------
(* _generate_fallback_query on its own *)

FallbackWords == {<< "n" >>, << "ab" >>, << "foo" >>, << "Calc" >>, << "node", ".type" >>}
FallbackQuestions ==
    {Join(ws) : ws \in SeqsUpTo(FallbackWords, MaxFallbackWords)} \cup {<< " " >>}

FallbackInit ==
    /\ fn_in \in FallbackQuestions
    /\ FnInit

ApplyFallback ==
    /\ pc = "fn"
    /\ fn_out' = << generate_fallback_query(fn_in) >>
    /\ pc' = "fn_done"
    /\ UNCHANGED << request, fn_in >>

SpecFallback == FallbackInit /\ [][ApplyFallback]_vars

---------------------------------------------------------------------------
(* format_results on its own *)

\* Bodies: a block of 760 characters (the lexeme "[760 chars]") followed by
\* single characters, so that the enriched text has 791 to 804 characters
\* around the cut; and two short bodies far from it.
Chars(n) == [i \in 1..n |-> "x"]
Bodies ==
    {<< "[760 chars]" >> \o Chars(n) : n \in 0..MaxBodyTail} \cup {<< >>, << "x" >>}
FormatDocs ==
    {Doc(h[1], h[2], b) :
        h \in {<< NoMeta, NoMeta >>, << << "Calc" >>, NoMeta >>,
               << NoMeta, << "Option" >> >>},
        b \in Bodies}

FormatInit ==
    /\ fn_in \in SeqsUpTo(FormatDocs, MaxDocs)
    /\ FnInit

ApplyFormat ==
    /\ pc = "fn"
    /\ fn_out' = << format_results(fn_in) >>
    /\ pc' = "fn_done"
    /\ UNCHANGED << request, fn_in >>

SpecFormat == FormatInit /\ [][ApplyFormat]_vars

---------------------------------------------------------------------------
(* query_llm's graph context on its own *)

RowCalculate ==
    << Field("Namespace", "str", << "Pricing" >>),
       Field("Class", "str", << "OptionPricing" >>),
       Field("Method", "str", << "Calculate" >>) >>
RowEmptyDoc ==
    << Field("Method", "str", << "Calc" >>), Field("Documentation", "str", << >>) >>
RowNoText == << Field("Count", "num", << >>), Field("Documentation", "null", << >>) >>
ContextRows == {RowCalculate, RowHit, RowMiss, RowEmptyDoc, RowNoText, RowClass}

ContextInit ==
    /\ fn_in \in SeqsUpTo(ContextRows, MaxContextRows)
    /\ FnInit

\* query_llm, lines 71-81: the blocks of the graph context, in row order; a
\* block is the set of its lines, a line the pair of key and value
ApplyContext ==
    /\ pc = "fn"
    /\ fn_out' = << graph_context_items(fn_in) >>
    /\ pc' = "fn_done"
    /\ UNCHANGED << request, fn_in >>

SpecContext == ContextInit /\ [][ApplyContext]_vars

---------------------------------------------------------------------------
(* Ingestion: insert_into_neo4j on a graph of nodes and CONTAINS edges *)

\* A stored node has an identity, a label, its name and its other properties
\* (a set of << key, value >>); an edge joins two identities.
StoredNode(id, label, name, props) ==
    [id |-> id, label |-> label, name |-> name, props |-> props]
Contains(a, b) == [from |-> a, type |-> "CONTAINS", to |-> b]

EmptyGraph == [nodes |-> {}, edges |-> {}]

NodesNamed(g, label, name) == {n \in g.nodes : n.label = label /\ n.name = name}
NodeId(g, label, name) == (CHOOSE n \in NodesNamed(g, label, name) : TRUE).id

\* The properties of a matched node after a merge.  py2neo overwrites the
\* remote node's properties with the local node's: releases differ in whether
\* properties the local node lacks are kept ("update") or dropped ("replace").
MergedProps(old, new, mode) ==
    IF mode = "replace" THEN new
    ELSE new \cup {q \in old : \A r \in new : r[1] # q[1]}

\* (variant: every merge creates a node, as tx.create would)
merge_node_create(g, label, name, props, mode) ==
    [g EXCEPT !.nodes = @ \cup
        {StoredNode(Cardinality(g.nodes) + 1, label, name, props)}]

\* tx.merge(node, label, "name"): match on label and name, create when absent
merge_node(g, label, name, props, mode) ==
    LET same == NodesNamed(g, label, name)
    IN IF same = {}
       THEN [g EXCEPT !.nodes = @ \cup
                {StoredNode(Cardinality(g.nodes) + 1, label, name, props)}]
       ELSE [g EXCEPT !.nodes = (@ \ same) \cup
                {StoredNode(n.id, label, name, MergedProps(n.props, props, mode)) :
                    n \in same}]

\* tx.merge(Relationship(a, "CONTAINS", b)) between two merged nodes: match on
\* start node, end node and type, create when absent
merge_contains(g, la, a, lb, b) ==
    [g EXCEPT !.edges = @ \cup {Contains(NodeId(g, la, a), NodeId(g, lb, b))}]

\* insert_into_neo4j, lines 13-15
RECURSIVE insert_namespaces(_, _, _)
insert_namespaces(g, namespaces, mode) ==
    IF namespaces = << >> THEN g
    ELSE insert_namespaces(merge_node(g, "Namespace", Head(namespaces).name, {}, mode),
                           Tail(namespaces), mode)

\* insert_into_neo4j, lines 17-24
RECURSIVE insert_classes(_, _, _)
insert_classes(g, classes, mode) ==
    IF classes = << >> THEN g
    ELSE LET cls == Head(classes)
             g1 == merge_node(g, "Class", cls.name,
                              {<< "filename", cls.filename >>,
                               << "docstring", cls.docstring >>}, mode)
             g2 == merge_node(g1, "Namespace", cls.namespace, {}, mode)
             g3 == merge_contains(g2, "Namespace", cls.namespace, "Class", cls.name)
         IN insert_classes(g3, Tail(classes), mode)

\* insert_into_neo4j, lines 26-33
RECURSIVE insert_methods(_, _, _)
insert_methods(g, methods, mode) ==
    IF methods = << >> THEN g
    ELSE LET method == Head(methods)
             g1 == merge_node(g, "Method", method.name,
                              {<< "docstring", method.docstring >>,
                               << "code", method.code >>}, mode)
             g2 == merge_node(g1, "Class", method.class, {}, mode)
             g3 == merge_contains(g2, "Class", method.class, "Method", method.name)
         IN insert_methods(g3, Tail(methods), mode)

insert_into_neo4j(g, graph_data, mode) ==
    insert_methods(
        insert_classes(
            insert_namespaces(g, graph_data.namespaces, mode),
            graph_data.classes, mode),
        graph_data.methods, mode)

\* the records the AST processor hands over
NamespaceRecords == {[name |-> n] : n \in {"Pricing", "Risk"}}
ClassRecords ==
    {[name |-> c, filename |-> "a.cs", docstring |-> "a class", namespace |-> n] :
        c \in {"Option", "Bond"}, n \in {"Pricing", "Risk"}}
MethodRecords ==
    {[name |-> m, docstring |-> IF c = "Option" THEN "" ELSE "a method",
      code |-> "body", class |-> c] :
        m \in {"Calc", "Run"}, c \in {"Option", "Bond"}}

Datasets ==
    [namespaces : SeqsUpTo(NamespaceRecords, MaxNamespaces),
     classes : SeqsUpTo(ClassRecords, MaxClasses),
     methods : SeqsUpTo(MethodRecords, MaxMethods)]

\* fn_in: the dataset and the store's merge mode; fn_out: the graph after each
\* pass; graphStore: the graph
IngestInit ==
    /\ fn_in \in [graph_data : Datasets, mode : {"replace", "update"}]
    /\ user_question = << >>
    /\ hyde_refinement_prompt = FALSE
    /\ driver = "ok"
    /\ vector_db = "ok"
    /\ index = TheIndex
    /\ graphStore = EmptyGraph
    /\ pc = "ingest"
    /\ initial_query = NotSet
    /\ initial_results = << >>
    /\ refined_query = NotSet
    /\ refined_results = << >>
    /\ neo4j_results = << >>
    /\ vector_results = << >>
    /\ prompt = NoPrompt
    /\ result = NoResult
    /\ chatLog = << >>
    /\ runLog = << >>
    /\ searchLog = << >>
    /\ fn_out = << >>

\* one run of insert_into_neo4j on the dataset
IngestPass ==
    /\ pc = "ingest"
    /\ Len(fn_out) < MaxPasses
    /\ graphStore' = insert_into_neo4j(graphStore, fn_in.graph_data, fn_in.mode)
    /\ fn_out' = Append(fn_out, graphStore')
    /\ UNCHANGED << user_question, hyde_refinement_prompt, driver, vector_db, index,
                    pc, initial_query, initial_results, refined_query,
                    refined_results, neo4j_results, vector_results, prompt, result,
                    chatLog, runLog, searchLog, fn_in >>

SpecIngest == IngestInit /\ [][IngestPass]_vars

---------------------------------------------------------------------------
(* Claims about the graph retriever *)

FetchReturned == pc \in {"fetched", "retrieved", "done"}
RefinedExecuted ==
    /\ FetchReturned
    /\ refined_query \notin {NotSet, << >>, initial_query}

\* C1: for every question and every model reply (text, empty text, raised
\* error) the query _generate_cypher_query returns is non-empty and
\* _validate_cypher_query is truthy on it.
C1_SynthesizedQueryValidates ==
    initial_query # NotSet =>
        /\ initial_query # << >>
        /\ Truthy(validate_cypher_query(initial_query))

\* C2: a non-empty initial row set is never replaced by an empty one: the rows
\* fetch_related_code returns are empty only if the initial execution, and the
\* refined execution when there was one, produced no rows.
C2_RefinementKeepsRows ==
    FetchReturned =>
        /\ initial_results # << >> => neo4j_results # << >>
        /\ neo4j_results = << >> =>
               /\ initial_results = << >>
               /\ RefinedExecuted => refined_results = << >>

C2_Witness ==
    /\ FetchReturned
    /\ RefinedExecuted
    /\ initial_results # << >>
    /\ refined_results = << >>
    /\ neo4j_results = initial_results

\* the question's distinct words and the words of the first 5 rows, lower-cased
C3_QuestionWords == {Lower(w) : w \in Range(Split(fn_in.question))}
C3_RowWords ==
    UNION {UNION {{Lower(w) : w \in Range(Split(fn_in.rows[i][f].v))} :
                      f \in {g \in 1..Len(fn_in.rows[i]) : fn_in.rows[i][g].t = "str"}} :
               i \in {j \in 1..5 : j <= Len(fn_in.rows)}}
\* C3: _should_refine_query is true on an empty row set, false on a non-empty
\* one whose overlap ratio (question words found among the words of the string
\* fields of the first 5 rows, over the distinct question words) is at least
\* 0.3, and depends on the first 5 rows only.
C3_ShouldRefineDecision ==
    pc = "fn_done" =>
        /\ fn_in.rows = << >> => fn_out = << TRUE >>
        /\ (/\ fn_in.rows # << >>
            /\ C3_QuestionWords # {}
            /\ 10 * Cardinality(C3_QuestionWords \cap C3_RowWords)
                   >= 3 * Cardinality(C3_QuestionWords))
               => fn_out = << FALSE >>
        /\ fn_out = << should_refine_query(SubSeq(fn_in.rows, 1,
                            IF Len(fn_in.rows) < 5 THEN Len(fn_in.rows) ELSE 5),
                         fn_in.question) >>

C3_Witness ==
    /\ pc = "fn_done"
    /\ Len(fn_in.rows) = 6
    /\ fn_in.rows[6] = RowHit
    /\ \A i \in 1..5 : fn_in.rows[i] = RowMiss
    /\ fn_in.question = << "Calc" >>
    /\ fn_out = << TRUE >>

\* one call of _execute_cypher_query: the runs it adds, the rows it returns
C4_Executing == pc \in {"execute_initial", "execute_refined"}
C4_NewRuns == SubSeq(runLog', Len(runLog) + 1, Len(runLog'))
C4_Rows == IF pc = "execute_initial" THEN initial_results' ELSE refined_results'
C4_Query == IF pc = "execute_initial" THEN initial_query ELSE refined_query
\* the runs and rows of one call, as C4 states them
C4_Step ==
    C4_Executing =>
        /\ Len(C4_NewRuns) <= 2
        /\ driver = "ok" => /\ Len(C4_NewRuns) >= 1
                            /\ C4_NewRuns[1].query = C4_Query
        /\ driver = "None" => C4_NewRuns = << >> /\ C4_Rows = << >>
        /\ (Len(C4_NewRuns) >= 1 /\ C4_NewRuns[1].ok) =>
               /\ Len(C4_NewRuns) = 1
               /\ C4_Rows = C4_NewRuns[1].rows
        /\ (Len(C4_NewRuns) >= 1 /\ ~C4_NewRuns[1].ok) =>
               /\ Len(C4_NewRuns) = 2
               /\ C4_NewRuns[2].query = FallbackTemplate(<< "code" >>)
               /\ C4_Rows = IF C4_NewRuns[2].ok THEN C4_NewRuns[2].rows ELSE << >>
\* C4: when running a query raises, _execute_cypher_query makes exactly one
\* more run, of the fallback query for the term "code", and returns its rows,
\* or no rows if that run raises too; no call makes more than two runs.
C4_SingleFallbackRetry == [][C4_Step]_vars

C4_Witness ==
    /\ pc = "fetched"
    /\ Len(runLog) = 2
    /\ ~runLog[1].ok
    /\ runLog[2].ok
    /\ runLog[2].query = FallbackTemplate(<< "code" >>)
    /\ runLog[2].rows # << >>
    /\ neo4j_results = runLog[2].rows

\* the store runs that did not raise, and the last of them
C5_OkRuns == {i \in 1..Len(runLog) : runLog[i].ok}
C5_LastOk == CHOOSE i \in C5_OkRuns : \A j \in C5_OkRuns : j <= i
\* C5 (as stated): the rows fetch_related_code returns are those produced by
\* the last stage that succeeded, and are empty only if every stage failed.
C5_RowsOfLastSuccessfulStage ==
    FetchReturned =>
        IF C5_OkRuns = {} THEN neo4j_results = << >>
        ELSE neo4j_results = runLog[C5_LastOk].rows

\* the store runs that returned at least one row, and the last of them
C5_RowRuns == {i \in 1..Len(runLog) : runLog[i].ok /\ runLog[i].rows # << >>}
C5_LastRows == CHOOSE i \in C5_RowRuns : \A j \in C5_RowRuns : j <= i
\* C5 (amended): fetch_related_code always returns a row set, and it is the
\* row set of the last graph-store run that succeeded with at least one row,
\* empty only if no run returned a row.
C5_RowsOfLastRunWithRows ==
    FetchReturned =>
        IF C5_RowRuns = {} THEN neo4j_results = << >>
        ELSE neo4j_results = runLog[C5_LastRows].rows

C5_Witness ==
    /\ FetchReturned
    /\ RefinedExecuted
    /\ C5_OkRuns # {}
    /\ runLog[C5_LastOk].rows = << >>
    /\ C5_RowRuns # {}
    /\ neo4j_results = runLog[C5_LastRows].rows
    /\ \E i \in 1..Len(runLog) : ~runLog[i].ok

---------------------------------------------------------------------------
(* Claims about the vector retriever and the endpoint *)

VectorDone == pc \in {"retrieved", "done"}
VectorRaised == pc = "done" /\ prompt = NoPrompt
MethodNames == Texts(ColumnOf(neo4j_results, "Method"))
ClassNames == Texts(ColumnOf(neo4j_results, "Class"))
SearchesOf(op) == {i \in 1..Len(searchLog) : searchLog[i].filter.op = op}
IndexMatches(filter) == {i \in 1..Len(index) : Matches(index[i], filter)}

\* C6: with method and class names both present the first search uses the AND
\* filter; the OR filter is searched, with the same text and k, exactly when
\* the AND search returned no document, and its result is what retrieve
\* returns; an index with no AND match and one OR match yields that document.
C6_AndThenOr ==
    (VectorDone /\ MethodNames # << >> /\ ClassNames # << >>) =>
        /\ Len(searchLog) >= 1
        /\ searchLog[1].filter = AndFilter(MethodNames, ClassNames)
        /\ SearchesOf("and") = {1}
        /\ SearchesOf("or") # {} <=> (searchLog[1].ok /\ searchLog[1].docs = << >>)
        /\ SearchesOf("or") # {} =>
               /\ SearchesOf("or") = {2}
               /\ searchLog[2].filter = OrFilter(MethodNames, ClassNames)
               /\ searchLog[2].query = searchLog[1].query
               /\ searchLog[2].k = searchLog[1].k
               /\ searchLog[2].ok => (~VectorRaised /\ vector_results = searchLog[2].docs)
        /\ (/\ \A i \in 1..Len(searchLog) : searchLog[i].ok
            /\ IndexMatches(AndFilter(MethodNames, ClassNames)) = {}
            /\ Cardinality(IndexMatches(OrFilter(MethodNames, ClassNames))) = 1)
               => \E d \in IndexMatches(OrFilter(MethodNames, ClassNames)) :
                      vector_results = << index[d] >>

C6_Witness ==
    /\ VectorDone
    /\ MethodNames = << << "Calc" >> >>
    /\ ClassNames = << << "OptionPricing" >> >>
    /\ Len(searchLog) = 2
    /\ searchLog[1].ok /\ searchLog[1].docs = << >>
    /\ searchLog[2].ok /\ searchLog[2].filter.op = "or"
    /\ vector_results = << index[1] >>

\* C7: when a filtered similarity search raises, the next search is the
\* unfiltered one with the same query text and the same k, and its documents
\* are what the retriever returns.
C7_FilteredErrorFallsBack ==
    VectorDone =>
        \A i \in 1..Len(searchLog) :
            (searchLog[i].filter.op # "none" /\ ~searchLog[i].ok) =>
                /\ i < Len(searchLog)
                /\ searchLog[i + 1].filter = NoFilter
                /\ searchLog[i + 1].query = searchLog[i].query
                /\ searchLog[i + 1].k = searchLog[i].k
                /\ searchLog[i + 1].ok =>
                       (~VectorRaised /\ vector_results = searchLog[i + 1].docs)

C7_Witness ==
    /\ pc = "retrieved"
    /\ Len(searchLog) = 2
    /\ searchLog[1].filter.op = "method" /\ ~searchLog[1].ok
    /\ searchLog[2].filter = NoFilter /\ searchLog[2].ok
    /\ vector_results = searchLog[2].docs
    /\ Len(vector_results) = 3

\* the index is unreachable: the handle is None, or every search made raised
C8_IndexUnreachable ==
    \/ vector_db = "None"
    \/ (searchLog # << >> /\ \A i \in 1..Len(searchLog) : ~searchLog[i].ok)
\* C8: with the vector index unreachable (every search raises, or the handle is
\* None) the vector stage yields no documents and the request goes on: the
\* final prompt is built and the final model call is made.
C8_RequestContinuesWithoutIndex ==
    (pc = "done" /\ C8_IndexUnreachable) =>
        /\ vector_results = << >>
        /\ prompt # NoPrompt
        /\ \E i \in 1..Len(chatLog) : chatLog[i].role = "final"

\* a backend call of the request raised; the payload is the error answer
C9_AnyFailure ==
    \/ \E i \in 1..Len(chatLog) : ~chatLog[i].ok
    \/ \E i \in 1..Len(runLog) : ~runLog[i].ok
    \/ \E i \in 1..Len(searchLog) : ~searchLog[i].ok
C9_IsErrorAnswer ==
    /\ result.kind = "answer"
    /\ Len(result.answer) >= 2
    /\ result.answer[1] = "An error occurred: "
    /\ result.answer[2] \in {"vector stage failed", "final model call failed"}
\* C9 (as stated): the endpoint always returns a payload {answer}; after any
\* failure in the graph stage, the vector stage or the final model call the
\* answer starts with "An error occurred: ", otherwise it is the model output.
C9_AnyFailureGivesErrorAnswer ==
    pc = "done" =>
        /\ result.kind = "answer"
        /\ C9_AnyFailure => C9_IsErrorAnswer
        /\ ~C9_AnyFailure => result = [kind |-> "answer", answer |-> << "the answer" >>]

\* an exception reached the `except` branch of query_llm
C9_HandlerReached ==
    \/ VectorRaised
    \/ \E i \in 1..Len(chatLog) : chatLog[i].role = "final" /\ ~chatLog[i].ok
\* C9 (amended): the endpoint always returns a payload {answer}; when the
\* vector stage or the final model call raised, the answer is "An error
\* occurred: " and the message; failures inside the graph stage are absorbed
\* there, and when nothing reaches the handler the answer is the model output.
C9_HandledFailureGivesErrorAnswer ==
    pc = "done" =>
        /\ result.kind = "answer"
        /\ C9_HandlerReached => C9_IsErrorAnswer
        /\ ~C9_HandlerReached => result = [kind |-> "answer", answer |-> << "the answer" >>]

C9_Witness ==
    /\ pc = "done"
    /\ \E i \in 1..Len(runLog) : ~runLog[i].ok
    /\ \E i \in 1..Len(chatLog) : chatLog[i].role = "hyde" /\ ~chatLog[i].ok
    /\ ~C9_HandlerReached
    /\ result = [kind |-> "answer", answer |-> << "the answer" >>]

\* C10: query serving never changes the graph store; a generated query with
\* MATCH, RETURN, LIMIT and a writing clause is not run against it.
C10_StoreUnchanged == graphStore = InitialStore


---------------------------------------------------------------------------
(* Claims about retries *)

\* the arguments of a similarity search
C11_SearchArgs(i) == << searchLog[i].query, searchLog[i].k, searchLog[i].filter >>

\* C11: within one request a model call or a similarity search that raised is
\* never issued again with the same arguments; in particular an unfiltered
\* search that raised is not repeated.
C11_NoRepeatedCall ==
    /\ \A i, j \in 1..Len(searchLog) :
           (i < j /\ ~searchLog[i].ok) => C11_SearchArgs(i) # C11_SearchArgs(j)
    /\ \A i, j \in 1..Len(chatLog) :
           (i < j /\ ~chatLog[i].ok) => chatLog[i].role # chatLog[j].role

---------------------------------------------------------------------------
(* Claims about ingestion *)

\* the names a dataset gives to the nodes of a label
C12_Names(label) ==
    LET d == fn_in.graph_data
    IN CASE label = "Namespace" ->
                {d.namespaces[i].name : i \in 1..Len(d.namespaces)}
                \cup {d.classes[i].namespace : i \in 1..Len(d.classes)}
         [] label = "Class" ->
                {d.classes[i].name : i \in 1..Len(d.classes)}
                \cup {d.methods[i].class : i \in 1..Len(d.methods)}
         [] label = "Method" ->
                {d.methods[i].name : i \in 1..Len(d.methods)}
C12_NodesOf(g, label) == {n \in g.nodes : n.label = label}

\* C12: after every pass of insert_into_neo4j the graph has exactly one node
\* per distinct namespace, class and method name of the dataset, and a second
\* pass on the same dataset leaves the node set of the first.
C12_IngestIdempotent ==
    /\ \A i \in 1..Len(fn_out) : \A label \in {"Namespace", "Class", "Method"} :
           /\ {n.name : n \in C12_NodesOf(fn_out[i], label)} = C12_Names(label)
           /\ Cardinality(C12_NodesOf(fn_out[i], label)) = Cardinality(C12_Names(label))
    /\ \A i \in 2..Len(fn_out) : fn_out[i].nodes = fn_out[1].nodes

C12_Witness ==
    /\ Len(fn_out) = 2
    /\ Len(fn_in.graph_data.methods) = 2
    /\ fn_in.graph_data.methods[1].name = fn_in.graph_data.methods[2].name
    /\ fn_in.graph_data.methods[1].docstring # fn_in.graph_data.methods[2].docstring
    /\ Cardinality(C12_NodesOf(graphStore, "Method")) = 1
    /\ Cardinality(C12_NodesOf(graphStore, "Class")) = 2

\* the CONTAINS edges that end at a node
C13_Incoming(g, n) == {e \in g.edges : e.to = n.id /\ e.type = "CONTAINS"}

\* C13: after any pass of insert_into_neo4j every Method node has exactly one
\* incoming CONTAINS edge, and it comes from a Class node.
C13_MethodHasOneClass ==
    \A i \in 1..Len(fn_out) : \A n \in C12_NodesOf(fn_out[i], "Method") :
        /\ Cardinality(C13_Incoming(fn_out[i], n)) = 1
        /\ \A e \in C13_Incoming(fn_out[i], n) :
               \E c \in C12_NodesOf(fn_out[i], "Class") : c.id = e.from

---------------------------------------------------------------------------
(* Claims about the fallback query *)

\* the words of the question, the length of its longest word, and the
\* comparison of a property with a term as the template writes it
C14_Tokens == Split(fn_in)
C14_Longest ==
    CHOOSE n \in 0..100 :
        /\ \A i \in 1..Len(C14_Tokens) : StrLen(C14_Tokens[i]) <= n
        /\ \E i \in 1..Len(C14_Tokens) : StrLen(C14_Tokens[i]) = n
C14_Compares(prop, term) ==
    << "toLower", "(", "m", prop, ")", "CONTAINS", "toLower", "(", "\"" >>
    \o term \o << "\"", ")" >>
C14_Uses(term) ==
    /\ InSeq(C14_Compares(".name", term), fn_out[1])
    /\ InSeq(C14_Compares(".docstring", term), fn_out[1])
    /\ InSeq(<< "LIMIT", "50" >>, fn_out[1])

\* C14: the fallback query of a question compares m.name and m.docstring,
\* both under toLower, with the question's longest word, or with the whole
\* question when that word has fewer than 3 characters, and ends in LIMIT 50;
\* for the question foo it contains toLower(m.name) CONTAINS toLower("foo").
C14_FallbackTerm ==
    (pc = "fn_done" /\ C14_Tokens # << >>) =>
        /\ C14_Longest < 3 => C14_Uses(fn_in)
        /\ C14_Longest >= 3 =>
               \E i \in 1..Len(C14_Tokens) :
                   /\ StrLen(C14_Tokens[i]) = C14_Longest
                   /\ C14_Uses(C14_Tokens[i])
        /\ fn_in = << "foo" >> =>
               /\ InSeq(<< "toLower", "(", "m", ".name", ")", "CONTAINS",
                           "toLower", "(", "\"", "foo", "\"", ")" >>, fn_out[1])
               /\ InSeq(<< "LIMIT", "50" >>, fn_out[1])

C14_Witness ==
    /\ pc = "fn_done"
    /\ fn_in = << "ab", " ", "n" >>
    /\ C14_Uses(<< "ab", " ", "n" >>)
    /\ ~C14_Uses(<< "ab" >>)

---------------------------------------------------------------------------
(* Claims about the vector context *)

\* the header and body of a document, as C15 writes them
C15_Enriched(doc) ==
    << "Method: " >>
    \o (IF doc.method_name = NoMeta THEN << "Unknown" >> ELSE doc.method_name)
    \o << " | Class: " >>
    \o (IF doc.class_name = NoMeta THEN << "Unknown" >> ELSE doc.class_name)
    \o << "\n\n" >> \o doc.page_content

\* C15: format_results renders a document as "Method: <name or Unknown> |
\* Class: <name or Unknown>", a blank line and the body; a text of more than
\* 800 characters becomes its first 800 characters and the truncation marker,
\* a text of 800 characters or fewer is left as it is.
C15_TruncateAt800 ==
    pc = "fn_done" =>
        /\ Len(fn_out[1]) = Len(fn_in)
        /\ \A i \in 1..Len(fn_in) :
               LET e == C15_Enriched(fn_in[i])
               IN /\ StrLen(e) <= 800 => fn_out[1][i] = e
                  /\ StrLen(e) > 800 =>
                         \E k \in 0..Len(e) :
                             /\ StrLen(SubSeq(e, 1, k)) = 800
                             /\ fn_out[1][i] =
                                    SubSeq(e, 1, k) \o << " [content truncated...]" >>

C15_Witness ==
    /\ pc = "fn_done"
    /\ Len(fn_in) = 2
    /\ StrLen(C15_Enriched(fn_in[1])) = 801
    /\ StrLen(fn_out[1][1]) = 823
    /\ fn_out[1][1][Len(fn_out[1][1])] = " [content truncated...]"
    /\ StrLen(C15_Enriched(fn_in[2])) = 800
    /\ fn_out[1][2] = C15_Enriched(fn_in[2])

\* the filter C19 gives for the names taken from the graph rows
C19_ExpectedFilter ==
    IF MethodNames # << >> THEN [op |-> "method", methods |-> MethodNames, classes |-> << >>]
    ELSE IF ClassNames # << >> THEN [op |-> "class", methods |-> << >>, classes |-> ClassNames]
    ELSE [op |-> "none", methods |-> << >>, classes |-> << >>]

\* C19: with only method names the first similarity search filters on
\* method_name, with only class names on class_name, with neither it is
\* unfiltered; in these cases, when that search does not raise, it is the only
\* search and its documents are returned.
C19_FirstFilterByNames ==
    (VectorDone /\ searchLog # << >> /\ (MethodNames = << >> \/ ClassNames = << >>)) =>
        /\ searchLog[1].filter = C19_ExpectedFilter
        /\ searchLog[1].ok =>
               /\ Len(searchLog) = 1
               /\ ~VectorRaised
               /\ vector_results = searchLog[1].docs

C19_Witness ==
    /\ pc = "retrieved"
    /\ MethodNames = << >>
    /\ ClassNames = << << "Foo" >> >>
    /\ Len(searchLog) = 1
    /\ searchLog[1].filter.op = "class"
    /\ searchLog[1].ok
    /\ vector_results = << index[2] >>

---------------------------------------------------------------------------
(* Claims about the refinement loop *)

\* the refinement model call of the request, the text it gave (fence removed),
\* whether that text is valid and new, and the runs of the initial execution
C17_RefineCalls == {i \in 1..Len(chatLog) : chatLog[i].role = "refine"}
C17_Text(i) == StripFence(chatLog[i].content)
C17_Accepted(i) ==
    /\ chatLog[i].ok
    /\ Truthy(validate_cypher_query(C17_Text(i)))
    /\ C17_Text(i) # initial_query
C17_InitialRuns == IF runLog = << >> THEN 0 ELSE IF runLog[1].ok THEN 1 ELSE 2

\* C17: fetch_related_code runs a refined query only if it passed
\* _validate_cypher_query and differs from the initial query; when the refined
\* text is invalid or the same, or the refinement call raised, no second query
\* is run and the initial rows are returned.  (Stated where fetch_related_code
\* returns.)
C17_RefinedRunOnlyIfValidAndNew ==
    (pc = "fetched" /\ driver = "ok") =>
        /\ C17_RefineCalls = {} => Len(runLog) = C17_InitialRuns
        /\ \A i \in C17_RefineCalls :
               /\ C17_Accepted(i) <=> Len(runLog) > C17_InitialRuns
               /\ C17_Accepted(i) => runLog[C17_InitialRuns + 1].query = C17_Text(i)
               /\ ~C17_Accepted(i) => neo4j_results = initial_results

C17_Witness ==
    /\ pc = "fetched"
    /\ driver = "ok"
    /\ \E i \in C17_RefineCalls :
           /\ chatLog[i].ok
           /\ Truthy(validate_cypher_query(C17_Text(i)))
           /\ C17_Text(i) = initial_query
    /\ Len(runLog) = 1
    /\ initial_results # << >>
    /\ neo4j_results = initial_results

\* the synthesis model call of the request, the text it gave (fence removed),
\* and whether that text compares with CONTAINS or STARTS WITH without toLower
C18_HydeCalls == {i \in 1..Len(chatLog) : chatLog[i].role = "hyde" /\ chatLog[i].ok}
C18_NeedsRepair(text) == validate_cypher_query(text).kind = "str"

\* C18: a generated query that uses CONTAINS or STARTS WITH with no toLower is
\* accepted, and the text the synthesizer returns, which is then executed, is
\* the repaired text with both operands of each comparison under toLower.
C18_RepairedTextReturned ==
    \A i \in C18_HydeCalls :
        C18_NeedsRepair(StripFence(chatLog[i].content)) =>
            /\ initial_query = enhance_with_case_insensitivity(StripFence(chatLog[i].content))
            /\ In("toLower", initial_query)
            /\ (driver = "ok" /\ runLog # << >>) => runLog[1].query = initial_query

\* the question handed to _should_refine_query has no word
C16_NoWords == Split(fn_in.question) = << >>

\* C16 (as stated): for a question without words _should_refine_query is true
\* only on an empty row set, and false on every non-empty one.
C16_NoWordsRefineOnlyOnEmpty ==
    (pc = "fn_done" /\ C16_NoWords) => fn_out = << fn_in.rows = << >> >>

\* C16 (amended): for a question without words the overlap ratio is 0, below
\* the threshold, so _should_refine_query is true on every row set, empty or
\* not.
C16_NoWordsAlwaysRefine ==
    (pc = "fn_done" /\ C16_NoWords) => fn_out = << TRUE >>

C16_Witness ==
    /\ pc = "fn_done"
    /\ fn_in.question = << " " >>
    /\ fn_in.rows = << RowHit, RowMiss >>
    /\ fn_out = << TRUE >>

---------------------------------------------------------------------------
(* Claims about the graph context *)

\* a field that C20 renders, the rows that have one, and the position of the
\* block of row i among the blocks
C20_Rendered(field) == field.t = "str" /\ field.v # << >>
C20_HasBlock(row) == \E f \in 1..Len(row) : C20_Rendered(row[f])
C20_BlockOf(i) == Cardinality({j \in 1..i : C20_HasBlock(fn_in[j])})

---------------------------------------------------------------------------
(* Claims about the cost and the source of the rows of fetch_related_code *)

\* the model calls of a role; the bounds C21 gives
C21_Calls(role) == {i \in 1..Len(chatLog) : chatLog[i].role = role}
C21_Bounded ==
    /\ Len(chatLog) <= 2
    /\ Cardinality(C21_Calls("hyde")) <= 1
    /\ Cardinality(C21_Calls("refine")) <= 1
    /\ Len(runLog) <= 4
    /\ pc \in {"start", "execute_initial", "refine", "execute_refined", "fetched"}

\* C21: every call of fetch_related_code returns, having made at most two
\* model calls (one synthesis, at most one refinement) and at most four
\* graph-store runs; once the refined query has been executed the call
\* returns without entering refinement again.
C21_FetchTerminatesBounded ==
    /\ []C21_Bounded
    /\ <>(pc = "fetched")
    /\ [][pc = "execute_refined" => pc' = "fetched"]_vars

C21_Witness ==
    /\ pc = "fetched"
    /\ Len(chatLog) = 2
    /\ Len(runLog) = 4
    /\ ~runLog[1].ok
    /\ ~runLog[3].ok

\* the refined query was accepted and run, its run raised, and the fallback
\* query for "code" that was run in its place returned rows
C22_RefinedRunFellBack ==
    /\ pc = "fetched"
    /\ refined_query \notin {NotSet, initial_query}
    /\ Len(runLog) = C17_InitialRuns + 2
    /\ runLog[C17_InitialRuns + 1].query = refined_query
    /\ ~runLog[C17_InitialRuns + 1].ok
    /\ runLog[Len(runLog)].query = FallbackTemplate(<< "code" >>)
    /\ runLog[Len(runLog)].ok
    /\ runLog[Len(runLog)].rows # << >>

\* C22: when running the accepted refined query raises and the fallback query
\* for "code" returns rows, fetch_related_code returns those rows, which are
\* neither the initial nor the refined query's, also when the initial rows
\* were not empty.
C22_FallbackRowsReplaceInitial ==
    C22_RefinedRunFellBack => neo4j_results = runLog[Len(runLog)].rows

C22_Witness ==
    /\ C22_RefinedRunFellBack
    /\ initial_results # << >>
    /\ runLog[1].ok
    /\ runLog[1].query = initial_query
    /\ neo4j_results = runLog[Len(runLog)].rows
    /\ neo4j_results # initial_results

\* C23: the retriever of the endpoint has no refinement prompt, so a request
\* makes no refinement model call and runs no refined query, whatever the
\* initial rows are, and the rows it uses are those of the initial execution.
C23_NoRefinementAsWired ==
    hyde_refinement_prompt = WiredRefinementPrompt =>
        /\ C21_Calls("refine") = {}
        /\ refined_query = NotSet
        /\ pc \notin {"refine", "execute_refined"}
        /\ Len(runLog) = (IF pc \in {"start", "execute_initial"} THEN 0
                          ELSE C17_InitialRuns)
        /\ \A i \in 1..Len(runLog) :
               runLog[i].query \in {initial_query, FallbackTemplate(<< "code" >>)}
        /\ FetchReturned => neo4j_results = initial_results

C23_Witness ==
    /\ pc = "done"
    /\ hyde_refinement_prompt = WiredRefinementPrompt
    /\ driver = "ok"
    /\ runLog # << >>
    /\ initial_results = << >>
    /\ should_refine_query(initial_results, user_question)
    /\ C21_Calls("refine") = {}
    /\ C21_Calls("final") # {}
    /\ neo4j_results = << >>

=============================================================================
